---- MODULE Spec2Model ----
(***************************************************************************)
(* Index resolution and extraction of the ROMS native reader               *)
(* (readers/reader_ROMS_native.py, Reader.get_variables).                  *)
(*                                                                         *)
(* Arrays are functions on 0-based index sets, as in numpy.  Horizontal    *)
(* coordinates are held in half cells (the value 2*x), so that np.floor    *)
(* is a real conversion.  Data values are not modelled; shapes, masks,     *)
(* index arrays and the depth profiles are.                                *)
(***************************************************************************)
EXTENDS Integers, Sequences, FiniteSets, TLC

VARIABLES reader, sea_floor_depth, h_reads, ncalls, args, result

vars == <<reader, sea_floor_depth, h_reads, ncalls, args, result>>

(* ------------------------------ bounds -------------------------------- *)
MaxPts == 2
XiRho == 4
EtaRho == 3
NumSigma == 4
MaxBuffer == 2
MaxDepth == 2
MaxCalls == 3

(* ------------------------- program constants -------------------------- *)
zbuffer == 1

(* ------------------------------ helpers ------------------------------- *)
Size(a) == Cardinality(DOMAIN a)

Values(a) == {a[j] : j \in DOMAIN a}

MinOf(S) == CHOOSE m \in S : \A s \in S : m <= s

MaxOf(S) == CHOOSE m \in S : \A s \in S : s <= m

\* np.arange(start, stop): start, start+1, ..., stop-1 (empty when stop <= start)
Arange(start, stop) == [i \in 0..(stop - start - 1) |-> start + i]

\* np.floor((c - cmin)/delta) of a coordinate held in half cells
FloorIndex(c, cmin, delta) == (c - 2 * cmin) \div (2 * delta)

\* bisect.bisect_left(a, v, lo, hi)
RECURSIVE bisect_left(_, _, _, _)
bisect_left(a, v, lo, hi) ==
  IF lo < hi
  THEN LET mid == (lo + hi) \div 2
       IN IF a[mid] < v THEN bisect_left(a, v, mid + 1, hi)
                        ELSE bisect_left(a, v, lo, mid)
  ELSE lo

\* dataset rank (var.ndim) of the catalogued ROMS variables h, zeta, u
VarNdim ==
  [sea_floor_depth |-> 2, sea_surface_height |-> 3, x_sea_water_velocity |-> 4]

Catalog == DOMAIN VarNdim

(* --------------------------- collaborators ---------------------------- *)
\* Query normalizer: positions of the points outside the horizontal extent
check_arguments(x, y) ==
  {j \in DOMAIN x : ~(/\ 2 * reader.xmin <= x[j] /\ x[j] <= 2 * reader.xmax
                     /\ 2 * reader.ymin <= y[j] /\ y[j] <= 2 * reader.ymax)}

\* Sigma transform: one depth per layer, non-decreasing bottom -> surface
Columns ==
  {c \in [0..(NumSigma - 1) -> (0 - MaxDepth)..0] :
     \A k \in 0..(NumSigma - 2) : c[k] <= c[k + 1]}

(* ----------------------- vertical range (158-185) --------------------- *)
SurfaceOnly(z) == MinOf(Values(z)) = 0

SurfaceLayer_bottom(num_layers) == 0
SurfaceLayer(num_layers) == num_layers - 1

NeedsRead_always(cache) == TRUE
NeedsRead(cache) == cache = "unset"

\* numpy integer-array indexing along an axis of length n
InBounds(i, n) == 0 - n <= i /\ i < n

Wrap(i, n) == IF i < 0 THEN i + n ELSE i

ZMins(z_profiles, nsigma) ==
  [k \in 0..(nsigma - 1) |-> MinOf(Values(z_profiles[k]))]

ZMaxs(z_profiles, nsigma) ==
  [k \in 0..(nsigma - 1) |-> MaxOf(Values(z_profiles[k]))]

IndzMin_bufferonly(zmaxs, zmin, nsigma) ==
  MaxOf({0, bisect_left(zmaxs, zmin, 0, nsigma) - zbuffer})
IndzMin_nowiden(zmaxs, zmin, nsigma) ==
  MaxOf({0, bisect_left(zmaxs, zmin, 0, nsigma)})
IndzMin(zmaxs, zmin, nsigma) ==
  MaxOf({0, bisect_left(zmaxs, zmin, 0, nsigma) - zbuffer - 1})

IndzMax_noclamp(zmins, zmax, nsigma) ==
  bisect_left(zmins, zmax, 0, nsigma) + zbuffer + 1
IndzMax(zmins, zmax, nsigma) ==
  MinOf({nsigma - 1, bisect_left(zmins, zmax, 0, nsigma) + zbuffer + 1})

(* ---------------------- horizontal indices (187-196) ------------------ *)
BlockRange_noclamp(ind, buffer, dim) ==
  Arange(MinOf(Values(ind)) - buffer, MaxOf(Values(ind)) + buffer)
BlockRange(ind, buffer, dim) ==
  Arange(MaxOf({0, MinOf(Values(ind)) - buffer}),
         MinOf({MaxOf(Values(ind)) + buffer, dim}))

ZeroOutside(ind, outside) ==
  [j \in DOMAIN ind |-> IF j \in outside THEN 0 ELSE ind[j]]

(* ------------------------ variable fetch (199-223) -------------------- *)
\* shape of var[...] under netCDF4's orthogonal indexing; nz = 0: scalar indz
RawShape(ndim, nz, ny, nx) ==
  IF ndim = 4 /\ nz > 0 THEN <<nz, ny, nx>> ELSE <<ny, nx>>

\* ndarray.diagonal(): the diagonal of axes 0 and 1 becomes the last axis
Diagonal(shape) ==
  IF Len(shape) = 2 THEN <<MinOf({shape[1], shape[2]})>>
  ELSE <<shape[3], MinOf({shape[1], shape[2]})>>

\* np.ma.array(..., ndmin=2)
Ndmin2(shape) == IF Len(shape) = 1 THEN <<1>> \o shape ELSE shape

FetchShape(ndim, nz, ny, nx, block) ==
  LET raw == RawShape(ndim, nz, ny, nx)
  IN Ndmin2(IF Len(raw) > 1 /\ ~block THEN Diagonal(raw) ELSE raw)

\* mask[outside[0]] = True assigns whole slices along axis 0
MaskRaises(shape, outside, block) ==
  ~block /\ \E i \in outside : ~InBounds(i, shape[1])

MaskOf(shape, outside, block) ==
  [shape |-> shape, rows |-> IF block THEN {} ELSE outside]

(* ------------------------------ the call ------------------------------ *)
NoArgs == [requested_variables |-> {}, x |-> <<>>, y |-> <<>>, z |-> <<>>,
           block |-> FALSE, z_r |-> <<>>]

NoResult ==
  [status |-> "none", block |-> FALSE, path |-> "none", outside |-> {},
   read_h |-> FALSE, transform |-> FALSE, searched |-> FALSE,
   gather |-> [rows |-> {}, cols |-> {}], fetch |-> [rows |-> {}, cols |-> {}],
   indz_min |-> 0, indz_max |-> 0, indz |-> <<>>, z |-> <<>>,
   x |-> <<>>, y |-> <<>>, masks |-> <<>>]

GetVariables(requested_variables, x, y, z, block, z_r) ==
  LET outside == check_arguments(x, y)
      npts == Size(x)
      nsigma == reader.num_layers
      indx == [j \in DOMAIN x |-> FloorIndex(x[j], reader.xmin, reader.delta_x)]
      indy == [j \in DOMAIN y |-> FloorIndex(y[j], reader.ymin, reader.delta_y)]
      surface == SurfaceOnly(z)
      read_h == ~surface /\ NeedsRead(sea_floor_depth)
      gather_raises ==
        ~surface /\ \E j \in DOMAIN x :
           ~InBounds(indy[j], reader.shape[1]) \/ ~InBounds(indx[j], reader.shape[2])
      zmins == ZMins(z_r, nsigma)
      zmaxs == ZMaxs(z_r, nsigma)
      indz_min == IndzMin(zmaxs, MinOf(Values(z)), nsigma)
      indz_max == IndzMax(zmins, MaxOf(Values(z)), nsigma)
      indz == Arange(indz_min, indz_max + 1)
      slice_raises == ~surface /\ \E i \in DOMAIN indz : ~InBounds(indz[i], nsigma)
      bx == IF block THEN BlockRange(indx, reader.buffer, reader.shape[2])
                     ELSE ZeroOutside(indx, outside)
      by == IF block THEN BlockRange(indy, reader.buffer, reader.shape[1])
                     ELSE ZeroOutside(indy, outside)
      nz == IF surface THEN 0 ELSE Size(indz)
      shapes == [par \in requested_variables |->
                   FetchShape(VarNdim[par], nz, Size(by), Size(bx), block)]
      mask_raises == \E par \in requested_variables :
                        MaskRaises(shapes[par], outside, block)
      entered == [NoResult EXCEPT !.block = block, !.outside = outside,
                    !.path = IF surface THEN "surface" ELSE "general",
                    !.read_h = read_h,
                    !.indz = <<SurfaceLayer(nsigma)>>,
                    !.z = IF surface THEN z ELSE <<>>,
                    !.gather = IF surface THEN [rows |-> {}, cols |-> {}]
                               ELSE [rows |-> Values(indy), cols |-> Values(indx)]]
      searched == IF surface THEN entered
                  ELSE [entered EXCEPT !.transform = TRUE, !.searched = TRUE,
                          !.indz_min = indz_min, !.indz_max = indz_max,
                          !.indz = indz]
      sliced == IF surface THEN entered
                ELSE [searched EXCEPT
                        !.z = [i \in DOMAIN indz |-> z_r[Wrap(indz[i], nsigma)]]]
      fetched == [sliced EXCEPT !.fetch = [rows |-> Values(by), cols |-> Values(bx)],
                    !.masks = [par \in requested_variables |->
                                 MaskOf(shapes[par], outside, block)]]
      returned == [fetched EXCEPT !.status = "ok",
                     !.x = IF block THEN bx
                           ELSE [j \in DOMAIN bx |->
                                   reader.xmin + (bx[j] - 1) * reader.delta_x],
                     !.y = IF block THEN by
                           ELSE [j \in DOMAIN by |->
                                   reader.ymin + (by[j] - 1) * reader.delta_y]]
  IN /\ ncalls < MaxCalls
     /\ ncalls' = ncalls + 1
     /\ args' = [requested_variables |-> requested_variables, x |-> x, y |-> y,
                 z |-> z, block |-> block, z_r |-> z_r]
     /\ sea_floor_depth' = IF read_h THEN "h" ELSE sea_floor_depth
     /\ h_reads' = IF read_h THEN h_reads + 1 ELSE h_reads
     /\ result' = IF gather_raises THEN [entered EXCEPT !.status = "IndexError"]
                  ELSE IF slice_raises THEN [searched EXCEPT !.status = "IndexError"]
                  ELSE IF mask_raises THEN [fetched EXCEPT !.status = "IndexError"]
                  ELSE returned
     /\ UNCHANGED reader

(* --------------------------- construction ----------------------------- *)
Constructed(buffer) ==
  [num_layers |-> NumSigma, zbuffer |-> zbuffer,
   xmin |-> 0, xmax |-> XiRho - 1, delta_x |-> 1,
   ymin |-> 0, ymax |-> EtaRho - 1, delta_y |-> 1,
   shape |-> <<EtaRho, XiRho>>, variables |-> Catalog, buffer |-> buffer]

Fresh(buffer) ==
  /\ reader = Constructed(buffer)
  /\ sea_floor_depth = "unset"
  /\ h_reads = 0
  /\ ncalls = 0
  /\ result = NoResult

(* ------------------------------ queries ------------------------------- *)
Pts(n) == 0..(n - 1)

ConstFn(n, v) == [j \in Pts(n) |-> v]

\* half-cell coordinates from half a cell before the grid to one cell past it
XCoords == (0 - 1)..(2 * XiRho)

YCoords == (0 - 1)..(2 * EtaRho)

Depths == (0 - MaxDepth)..1

\* positions varied along one axis (any number of points) or along both (one point)
Horizontal ==
  UNION {{[x |-> xs, y |-> ConstFn(n, 0)] : xs \in [Pts(n) -> XCoords]}
         \cup {[x |-> ConstFn(n, 0), y |-> ys] : ys \in [Pts(n) -> YCoords]}
         : n \in 1..MaxPts}
  \cup {[x |-> ConstFn(1, cx), y |-> ConstFn(1, cy)] : cx \in XCoords, cy \in YCoords}

LinearColumn ==
  [k \in 0..(NumSigma - 1) |-> MaxOf({0 - MaxDepth, k - (NumSigma - 1)})]

\* z_r of the transform: layers x points
Profile(n, colA, colB) ==
  [k \in 0..(NumSigma - 1) |-> [j \in Pts(n) |-> IF j = 0 THEN colA[k] ELSE colB[k]]]

\* the transform is invoked only on the general path
ProfileFor(z, n, colA, colB) ==
  IF SurfaceOnly(z) THEN <<>> ELSE Profile(n, colA, colB)

Query(vs, h, z, block, colA, colB) ==
  [requested_variables |-> vs, x |-> h.x, y |-> h.y, z |-> z, block |-> block,
   z_r |-> ProfileFor(z, Size(h.x), colA, colB)]

\* block mode over the horizontal positions, at the surface and below it
BlockQuery(h, d) ==
  Query({"sea_surface_height"}, h, ConstFn(Size(h.x), d), TRUE,
        LinearColumn, LinearColumn)

\* point mode over the horizontal positions and the variable ranks
PointQuery(vs, h, d) ==
  Query(vs, h, ConstFn(Size(h.x), d), FALSE, LinearColumn, LinearColumn)

\* n points of one cell: depths a (point 0) and b (the others), profile colA
\* (column 0) and colB (the others), so that every pair zmins <= zmaxs occurs
DepthQuery(n, a, b, block, colA, colB) ==
  Query({"x_sea_water_velocity"}, [x |-> ConstFn(n, 0), y |-> ConstFn(n, 0)],
        [j \in Pts(n) |-> IF j = 0 THEN a ELSE b], block, colA, colB)

SingleQueries ==
  {Query({v}, [x |-> ConstFn(1, cx), y |-> ConstFn(1, 0)], ConstFn(1, d), block,
         LinearColumn, LinearColumn) :
     v \in {"sea_surface_height", "x_sea_water_velocity"}, cx \in XCoords,
     d \in {0 - 1, 0}, block \in BOOLEAN}

(* --------------------------- specifications --------------------------- *)
\* one Reader, any sequence of single-point calls
Init == \E b \in 0..MaxBuffer : Fresh(b) /\ args = NoArgs

Next ==
  \E q \in SingleQueries :
    GetVariables(q.requested_variables, q.x, q.y, q.z, q.block, q.z_r)

Spec == Init /\ [][Next]_vars

\* one call on a fresh Reader, its arguments drawn from the query families
InitCall ==
  \/ \E b \in 0..MaxBuffer, h \in Horizontal, d \in {0 - 1, 0} :
        Fresh(b) /\ args = BlockQuery(h, d)
  \/ \E vs \in {{v} : v \in Catalog} \cup {Catalog}, h \in Horizontal,
        d \in {0 - 1, 0} :
        Fresh(0) /\ args = PointQuery(vs, h, d)
  \/ \E colA \in Columns, colB \in Columns, n \in 1..MaxPts, a \in Depths,
        b \in Depths, block \in BOOLEAN :
        /\ \A k \in 0..(NumSigma - 1) : colA[k] <= colB[k]
        /\ (n = 1) => ((colB = colA) /\ (b = a))
        /\ Fresh(0) /\ args = DepthQuery(n, a, b, block, colA, colB)

Call ==
  /\ ncalls = 0
  /\ GetVariables(args.requested_variables, args.x, args.y, args.z, args.block,
                  args.z_r)

NextCall == Call

SpecCall == InitCall /\ [][NextCall]_vars

(* ------------------------ the call under study ------------------------ *)
Called == result.status # "none"

NPoints == Size(args.x)

QIndx == [j \in DOMAIN args.x |-> FloorIndex(args.x[j], reader.xmin, reader.delta_x)]

QIndy == [j \in DOMAIN args.y |-> FloorIndex(args.y[j], reader.ymin, reader.delta_y)]

ReqMin == MinOf(Values(args.z))

ReqMax == MaxOf(Values(args.z))

\* per-layer extremes of the transform's profile over the query columns
LayerMin(k) == MinOf({args.z_r[k][j] : j \in DOMAIN args.x})

LayerMax(k) == MaxOf({args.z_r[k][j] : j \in DOMAIN args.x})

Layers == 0..(reader.num_layers - 1)

\* leftmost insertion points of the requested extremes in the sorted layer arrays
InsertMinInMaxs == Cardinality({k \in Layers : LayerMax(k) < ReqMin})

InsertMaxInMins == Cardinality({k \in Layers : LayerMin(k) < ReqMax})

\* the mask entry of query point j: along the row of a 1 x N result, else along axis 0
MaskedAt(m, j) == IF m.shape[1] = 1 THEN 0 \in m.rows ELSE j \in m.rows

(* ------------------------------- claims ------------------------------- *)
\* some query point lies inside the domain
SomeInside == result.outside # DOMAIN args.x

\* the call got as far as fetching and masking the requested variables
Fetched == DOMAIN result.masks = args.requested_variables

\* C1: in point mode every call that reaches the masking of its variables (with
\* at least one point inside the domain) completes without an indexing error, and
\* every requested variable's mask is True exactly at the positions of the points
\* flagged outside the domain.
PointMaskExact ==
  (Called /\ ~result.block /\ SomeInside /\ Fetched) =>
     /\ result.status = "ok"
     /\ \A par \in DOMAIN result.masks :
          \A j \in DOMAIN args.x :
             MaskedAt(result.masks[par], j) <=> (j \in result.outside)

\* C2: in block mode every index of the returned x range lies in [0, width-1] and
\* every index of the returned y range in [0, height-1], for every buffer.
BlockRangesClamped ==
  (result.status = "ok" /\ result.block) =>
     /\ \A i \in Values(result.x) : 0 <= i /\ i <= XiRho - 1
     /\ \A i \in Values(result.y) : 0 <= i /\ i <= EtaRho - 1

BlockRangesClampedWitness ==
  /\ result.status = "ok" /\ result.block
  /\ NPoints >= 2
  /\ MinOf(Values(QIndx)) - reader.buffer < 0
  /\ MaxOf(Values(QIndx)) + reader.buffer > XiRho - 1
  /\ Values(result.x) = 0..(XiRho - 1)

\* C3: in block mode (here: with every query point inside the domain) the returned
\* range of each axis is exactly the integers from max(0, min_index - buffer) to
\* min(dim_size - 1, max_index + buffer) inclusive.
BlockRangeExact ==
  (result.status = "ok" /\ result.block /\ result.outside = {}) =>
     /\ Values(result.x) =
          MaxOf({0, MinOf(Values(QIndx)) - reader.buffer})
            .. MinOf({XiRho - 1, MaxOf(Values(QIndx)) + reader.buffer})
     /\ Values(result.y) =
          MaxOf({0, MinOf(Values(QIndy)) - reader.buffer})
            .. MinOf({EtaRho - 1, MaxOf(Values(QIndy)) + reader.buffer})

\* C4: when every requested depth is 0 the vertical index is the single topmost
\* layer, 'z' is the requested z unchanged, and neither the sigma transform is
\* invoked nor the bottom-depth field read or gathered.
SurfaceQueryTopLayer ==
  (Called /\ \A j \in DOMAIN args.z : args.z[j] = 0) =>
     /\ result.path = "surface"
     /\ result.indz = <<reader.num_layers - 1>>
     /\ result.z = args.z
     /\ ~result.transform /\ ~result.searched
     /\ ~result.read_h /\ h_reads = 0 /\ sea_floor_depth = "unset"
     /\ result.gather = [rows |-> {}, cols |-> {}]

SurfaceQueryTopLayerWitness ==
  /\ result.status = "ok"
  /\ NPoints >= 2
  /\ \A j \in DOMAIN args.z : args.z[j] = 0
  /\ result.indz = <<NumSigma - 1>>

\* C5: when the requested depths lie within [zmins[0], zmaxs[num_layers-1]], the
\* resolved range [lower, upper] covers them all: zmins[lower] <= min requested
\* depth and max requested depth <= zmaxs[upper].
DepthRangeCovers ==
  (/\ result.searched
   /\ LayerMin(0) <= ReqMin
   /\ ReqMax <= LayerMax(reader.num_layers - 1)) =>
     /\ result.indz_min \in Layers /\ result.indz_max \in Layers
     /\ LayerMin(result.indz_min) <= ReqMin
     /\ ReqMax <= LayerMax(result.indz_max)

DepthRangeCoversWitness ==
  /\ result.searched /\ result.status = "ok"
  /\ NPoints >= 2
  /\ LayerMin(0) <= ReqMin /\ ReqMin < ReqMax
  /\ ReqMax <= LayerMax(reader.num_layers - 1)
  /\ result.indz_min > 0
  /\ \E k \in Layers : LayerMin(k) < LayerMax(k)

\* C6: over any sequence of calls the bottom-depth field is loaded at most once,
\* by the first call on the general path; later calls reuse it, surface-only calls
\* never load it, and no other attribute of the Reader changes.
SeaFloorLoadedOnce ==
  [][/\ reader' = reader
     /\ h_reads' <= 1
     /\ (h_reads' = h_reads + 1) <=>
          (result'.path = "general" /\ sea_floor_depth = "unset")
     /\ (h_reads' = h_reads + 1) => sea_floor_depth' = "h"
     /\ (h_reads' # h_reads + 1) =>
          (h_reads' = h_reads /\ sea_floor_depth' = sea_floor_depth)]_vars

SeaFloorLoadedOnceWitness ==
  /\ ncalls >= 2
  /\ h_reads = 1
  /\ result.path = "general" /\ result.status = "ok"
  /\ ~result.read_h

\* C7: the surface-only fast path is taken only when every requested depth is 0.
SurfacePathOnlyAllZero ==
  (Called /\ result.path = "surface") => \A j \in DOMAIN args.z : args.z[j] = 0

\* C8: in point mode (with at least one point inside the domain) no access uses
\* a row or column index outside [0, dim_size-1], the gather of bottom depth at
\* the query columns included.
PointAccessInBounds ==
  (Called /\ ~result.block /\ SomeInside) =>
     /\ result.gather.rows \subseteq 0..(EtaRho - 1)
     /\ result.gather.cols \subseteq 0..(XiRho - 1)
     /\ result.fetch.rows \subseteq 0..(EtaRho - 1)
     /\ result.fetch.cols \subseteq 0..(XiRho - 1)

\* C9 (as stated, for queries inside the domain): lower = max(0, L - 1) and
\* upper = min(num_layers - 1, U + 1).
VerticalBufferOneLayer ==
  (result.searched /\ result.outside = {}) =>
     /\ result.indz_min = MaxOf({0, InsertMinInMaxs - 1})
     /\ result.indz_max = MinOf({reader.num_layers - 1, InsertMaxInMins + 1})

\* C9 (amended): lower = max(0, L - 2) and upper = min(num_layers - 1, U + 2),
\* each bound widened from its insertion point by zbuffer + 1 = 2 layers.
VerticalBufferTwoLayers ==
  result.searched =>
     /\ result.indz_min = MaxOf({0, InsertMinInMaxs - 2})
     /\ result.indz_max = MinOf({reader.num_layers - 1, InsertMaxInMins + 2})

VerticalBufferTwoLayersWitness ==
  /\ result.searched /\ result.status = "ok"
  /\ NPoints >= 2
  /\ InsertMinInMaxs >= 3
  /\ result.indz_min = InsertMinInMaxs - 2

\* C10: on the general path the layer range satisfies
\* 0 <= lower <= upper <= num_layers - 1, holds at least 2 layers when
\* num_layers >= 2, and 'z' has shape (upper - lower + 1, number of points).
LayerRangeWellFormed ==
  result.searched =>
     /\ 0 <= result.indz_min /\ result.indz_min <= result.indz_max
     /\ result.indz_max <= reader.num_layers - 1
     /\ (reader.num_layers >= 2 => result.indz_max - result.indz_min + 1 >= 2)
     /\ DOMAIN result.z = 0..(result.indz_max - result.indz_min)
     /\ \A i \in DOMAIN result.z : DOMAIN result.z[i] = Pts(NPoints)

LayerRangeWellFormedWitness ==
  /\ result.searched /\ result.status = "ok"
  /\ NPoints >= 2
  /\ ReqMax > LayerMax(reader.num_layers - 1)
  /\ ReqMin < LayerMin(0)
  /\ Size(result.z) >= 2

====
